---- MODULE Spec2Model ----
(***************************************************************************)
(* A model of src/main.py: an in-memory file system tree (FileSystemNode,  *)
(* FileSystem) with create, delete, list_directory, search and per-user    *)
(* permissions.                                                            *)
(*                                                                         *)
(* Strings that the code parses (paths, names) are sequences of one-       *)
(* character strings, so that strip and split are computed as Python       *)
(* computes them.  A node is a record; its children dict is the sequence   *)
(* of its child nodes in insertion order, keyed by each child's name       *)
(* (add_child stores a child under child.name).                            *)
(***************************************************************************)
EXTENDS Naturals, Sequences, FiniteSets

VARIABLES root, last

vars == <<root, last>>

----------------------------------------------------------------------------
(* Bounds of the exploration *)

MaxPathLen == 4
MaxNameLen == 1
MaxNodes == 3
MaxPermNodes == 1
MaxFrameNodes == 2
MaxFramePerms == 1
MaxPerms == 2

Chars == {"/", "a", "b"}
Users == {"u", "v"}
Perms == {"r", "w"}

----------------------------------------------------------------------------
(* Values *)

\* Python's None, as a node reference and as a missing permission
None == [is_none |-> TRUE]
NonePerm == "<None>"

\* The error raised, named after the spec's taxonomy, one per raise site
NoError == "ok"
InvalidOperation == "InvalidOperation"
AlreadyExists == "AlreadyExists"
NotFound == "NotFound"
TypeConflict == "TypeConflict"
NotADirectory == "NotADirectory"

RootName == <<"/">>
EmptyPerms == [u \in {} |-> NonePerm]

----------------------------------------------------------------------------
(* str.strip("/") and str.split("/") *)

RECURSIVE LStrip(_)
LStrip(s) ==
    IF s # <<>> /\ Head(s) = "/" THEN LStrip(Tail(s)) ELSE s

RECURSIVE RStrip(_)
RStrip(s) ==
    IF s # <<>> /\ s[Len(s)] = "/" THEN RStrip(SubSeq(s, 1, Len(s) - 1)) ELSE s

Strip(s) == RStrip(LStrip(s))

RECURSIVE Split(_)
Split(s) ==
    IF s = <<>> THEN << <<>> >>
    ELSE IF Head(s) = "/" THEN << <<>> >> \o Split(Tail(s))
    ELSE LET r == Split(Tail(s))
         IN  << <<Head(s)>> \o Head(r) >> \o Tail(r)

\* parts = path.strip("/").split("/")
Parts(path) == Split(Strip(path))

----------------------------------------------------------------------------
(* FileSystemNode *)

FileSystemNode(name, is_file) ==
    [name |-> name, is_file |-> is_file, children |-> <<>>,
     permissions |-> EmptyPerms]

Keys(children) == [i \in 1..Len(children) |-> children[i].name]

HasKey(children, k) == \E i \in 1..Len(children) : children[i].name = k

\* A variant that finds directories only
GetChildDirsOnly(node, child_name) ==
    IF \E i \in 1..Len(node.children) :
           node.children[i].name = child_name /\ ~node.children[i].is_file
    THEN node.children[CHOOSE i \in 1..Len(node.children) :
                           node.children[i].name = child_name]
    ELSE None

get_child(node, child_name) ==
    IF HasKey(node.children, child_name)
    THEN node.children[CHOOSE i \in 1..Len(node.children) :
                           node.children[i].name = child_name]
    ELSE None

\* A variant that puts the new entry first
DictInsertFirst(children, child) == <<child>> \o children

\* self.children[child.name] = child, for a new key: appended to the dict
DictInsertNew(children, child) == Append(children, child)

\* A variant that drops the entries the mapping had
AddChildAlone(node, child) ==
    IF node.is_file THEN [node |-> node, err |-> InvalidOperation]
    ELSE IF HasKey(node.children, child.name)
         THEN [node |-> node, err |-> AlreadyExists]
         ELSE [node |-> [node EXCEPT !.children = <<child>>], err |-> NoError]

add_child(node, child) ==
    IF node.is_file THEN [node |-> node, err |-> InvalidOperation]
    ELSE IF HasKey(node.children, child.name)
         THEN [node |-> node, err |-> AlreadyExists]
         ELSE [node |-> [node EXCEPT !.children = DictInsertNew(@, child)],
               err |-> NoError]

\* A variant that empties the mapping
DictDeleteAll(children, k) == <<>>

\* del self.children[child_name]: the other entries keep their order
DictDelete(children, k) ==
    LET keep == {i \in 1..Len(children) : children[i].name # k}
        F[i \in 0..Len(children)] ==
            IF i = 0 THEN <<>>
            ELSE IF i \in keep THEN Append(F[i - 1], children[i]) ELSE F[i - 1]
    IN  F[Len(children)]

remove_child(node, child_name) ==
    IF node.children = <<>> \/ ~HasKey(node.children, child_name)
    THEN [node |-> node, err |-> NotFound]
    ELSE [node |-> [node EXCEPT !.children = DictDelete(@, child_name)],
          err |-> NoError]

\* A variant that replaces the whole mapping
NodeSetPermissionsOnly(node, user, permissions) ==
    [node EXCEPT !.permissions = [x \in {user} |-> permissions]]

node_set_permissions(node, user, permissions) ==
    [node EXCEPT !.permissions =
        [x \in (DOMAIN @) \cup {user} |-> IF x = user THEN permissions ELSE @[x]]]

node_get_permissions(node, user) ==
    IF user \in DOMAIN node.permissions THEN node.permissions[user] ELSE NonePerm

----------------------------------------------------------------------------
(* The tree as a value: a mutation of a node reached from the root is the  *)
(* root with that node replaced                                            *)

\* node with the child stored under key k replaced by new (same position)
ReplaceChild(node, k, new) ==
    [node EXCEPT !.children =
        [i \in 1..Len(@) |-> IF @[i].name = k THEN new ELSE @[i]]]

RECURSIVE ReplaceAt(_, _, _)
ReplaceAt(node, path, new) ==
    IF path = <<>> THEN new
    ELSE ReplaceChild(node, Head(path),
                      ReplaceAt(get_child(node, Head(path)), Tail(path), new))

RECURSIVE NodeCount(_)
RECURSIVE ChildrenCount(_)
ChildrenCount(children) ==
    IF children = <<>> THEN 0
    ELSE NodeCount(Head(children)) + ChildrenCount(Tail(children))
NodeCount(node) == 1 + ChildrenCount(node.children)

----------------------------------------------------------------------------
(* FileSystem *)

RECURSIVE TraverseFrom(_, _)
TraverseFrom(current, path) ==
    IF path = <<>> THEN current
    ELSE IF current = None \/ current.is_file THEN None
    ELSE TraverseFrom(get_child(current, Head(path)), Tail(path))

\* A variant that also refuses a file as the last node
TraverseDirsOnly(fs, path) ==
    LET node == TraverseFrom(fs, path)
    IN  IF node # None /\ node.is_file THEN None ELSE node

_traverse(fs, path) == TraverseFrom(fs, path)

\* A variant that gives every new node the requested flag
NewNodeIsFileAlways(rest, is_file) == is_file

\* The flag of the node create makes for parts[i]: rest are parts[i..]
NewNodeIsFile(rest, is_file) == IF Len(rest) = 1 THEN is_file ELSE FALSE

\* A variant of the final check that accepts any existing node
CreateNoFinalCheck(current, is_file) == NoError

\* The final check of create, after the loop
CreateFinalCheck(current, is_file) ==
    IF current.is_file # is_file THEN TypeConflict ELSE NoError

\* A variant of the loop that neither checks for a file nor uses add_child
RECURSIVE CreateWalkUnchecked(_, _, _)
CreateWalkUnchecked(current, rest, is_file) ==
    IF rest = <<>>
    THEN [node |-> current, err |-> CreateFinalCheck(current, is_file)]
    ELSE LET part == Head(rest)
             child == get_child(current, part)
         IN  IF child = None
             THEN LET new_node == FileSystemNode(part, NewNodeIsFile(rest, is_file))
                      added == [current EXCEPT
                                   !.children = DictInsertNew(@, new_node)]
                      sub == CreateWalkUnchecked(new_node, Tail(rest), is_file)
                  IN  [node |-> ReplaceChild(added, part, sub.node),
                       err |-> sub.err]
             ELSE LET sub == CreateWalkUnchecked(child, Tail(rest), is_file)
                  IN  [node |-> ReplaceChild(current, part, sub.node),
                       err |-> sub.err]

\* The loop of create from `current` over the remaining parts; the result
\* is `current` as the loop leaves it (also when it raises) and the error.
RECURSIVE CreateWalk(_, _, _)
CreateWalk(current, rest, is_file) ==
    IF rest = <<>>
    THEN [node |-> current, err |-> CreateFinalCheck(current, is_file)]
    ELSE IF current.is_file
    THEN [node |-> current, err |-> InvalidOperation]
    ELSE LET part == Head(rest)
             child == get_child(current, part)
         IN  IF child = None
             THEN LET new_node == FileSystemNode(part, NewNodeIsFile(rest, is_file))
                      added == add_child(current, new_node)
                  IN  IF added.err # NoError THEN added
                      ELSE LET sub == CreateWalk(new_node, Tail(rest), is_file)
                           IN  [node |-> ReplaceChild(added.node, part, sub.node),
                                err |-> sub.err]
             ELSE LET sub == CreateWalk(child, Tail(rest), is_file)
                  IN  [node |-> ReplaceChild(current, part, sub.node),
                       err |-> sub.err]

\* A variant that takes the root path as the root and gives it the flag
CreateRetypingRoot(fs, path, is_file) ==
    IF Parts(path) = << <<>> >>
    THEN [node |-> [fs EXCEPT !.is_file = is_file], err |-> NoError]
    ELSE CreateWalk(fs, Parts(path), is_file)

create(fs, path, is_file) == CreateWalk(fs, Parts(path), is_file)

delete(fs, path) ==
    LET parts == Parts(path)
        front == SubSeq(parts, 1, Len(parts) - 1)
        parent == _traverse(fs, front)
    IN  IF parent = None THEN [node |-> fs, err |-> NotFound]
        ELSE LET removed == remove_child(parent, parts[Len(parts)])
             IN  [node |-> ReplaceAt(fs, front, removed.node), err |-> removed.err]

\* A variant that refuses a directory that holds a permission entry
ListPartsGated(fs, parts) ==
    LET node == _traverse(fs, parts)
    IN  IF node = None \/ node.is_file \/ node.permissions # EmptyPerms
        THEN [err |-> NotADirectory, val |-> <<>>]
        ELSE [err |-> NoError, val |-> Keys(node.children)]

\* list_directory once the path is split into parts
ListParts(fs, parts) ==
    LET node == _traverse(fs, parts)
    IN  IF node = None \/ node.is_file
        THEN [err |-> NotADirectory, val |-> <<>>]
        ELSE [err |-> NoError, val |-> Keys(node.children)]

list_directory(fs, path) == ListParts(fs, Parts(path))

\* f"{path}/{child_name}".strip("//"): strip takes a set of characters
ChildPath(path, child_name) == Strip(path \o <<"/">> \o child_name)

\* results.append(path or "/")
ReportedPath(path) == IF path = <<>> THEN <<"/">> ELSE path

RECURSIVE search(_, _, _)
RECURSIVE SearchChildren(_, _, _)
SearchChildren(name, children, path) ==
    IF children = <<>> THEN <<>>
    ELSE search(name, Head(children), ChildPath(path, Head(children).name))
         \o SearchChildren(name, Tail(children), path)
search(name, node, path) ==
    LET results == IF node.name = name THEN <<ReportedPath(path)>> ELSE <<>>
    IN  IF ~node.is_file
        THEN results \o SearchChildren(name, node.children, path)
        ELSE results

\* A variant that does not test the start node itself
SearchBelowRoot(fs, name) == SearchChildren(name, fs.children, <<>>)

\* search(name) with the defaults node=None (the root) and path=""
search_root(fs, name) == search(name, fs, <<>>)

\* A variant that does nothing, without an error, where the path is missing
SetPermissionsSilent(fs, path, user, permissions) ==
    LET parts == Parts(path)
        node == _traverse(fs, parts)
    IN  IF node = None THEN [node |-> fs, err |-> NoError]
        ELSE [node |-> ReplaceAt(fs, parts,
                                 node_set_permissions(node, user, permissions)),
              err |-> NoError]

set_permissions(fs, path, user, permissions) ==
    LET parts == Parts(path)
        node == _traverse(fs, parts)
    IN  IF node = None THEN [node |-> fs, err |-> NotFound]
        ELSE [node |-> ReplaceAt(fs, parts,
                                 node_set_permissions(node, user, permissions)),
              err |-> NoError]

get_permissions(fs, path, user) ==
    LET node == _traverse(fs, Parts(path))
    IN  IF node = None THEN [err |-> NotFound, val |-> NonePerm]
        ELSE [err |-> NoError, val |-> node_get_permissions(node, user)]

RECURSIVE PermCount(_)
RECURSIVE ChildrenPermCount(_)
ChildrenPermCount(children) ==
    IF children = <<>> THEN 0
    ELSE PermCount(Head(children)) + ChildrenPermCount(Tail(children))
PermCount(node) ==
    Cardinality(DOMAIN node.permissions) + ChildrenPermCount(node.children)

----------------------------------------------------------------------------
(* Inputs *)

RECURSIVE StringsUpTo(_)
StringsUpTo(n) ==
    IF n = 0 THEN {<<>>}
    ELSE LET shorter == StringsUpTo(n - 1)
         IN  shorter \cup
             {Append(s, c) : s \in {t \in shorter : Len(t) = n - 1}, c \in Chars}

SegmentsOk(s) ==
    LET segs == Split(s) IN \A i \in 1..Len(segs) : Len(segs[i]) <= MaxNameLen

PathStrings == {s \in StringsUpTo(MaxPathLen) : SegmentsOk(s)}

\* The segment lists that the path strings split into
PartsSet == {Parts(p) : p \in PathStrings}

\* The names to search for: every path segment, and the root's name
Names ==
    UNION {{Parts(p)[i] : i \in 1..Len(Parts(p))} : p \in PathStrings}
        \cup {RootName}

----------------------------------------------------------------------------
(* The state machine: root is FileSystem.root; last is the last call: the  *)
(* operation, its arguments (a path as the handler's parts), the error     *)
(* raised and the value returned                                           *)

NoArgs ==
    [parts |-> <<>>, is_file |-> FALSE, name |-> <<>>, user |-> "", perm |-> ""]

Call(op, args, err, val) == [op |-> op, args |-> args, err |-> err, val |-> val]

Init ==
    /\ root = FileSystemNode(RootName, FALSE)
    /\ last = Call("init", NoArgs, NoError, <<>>)

\* create(path, is_file), while the tree keeps at most `bound` nodes below
\* the root
Create(bound) ==
    \E path \in PathStrings, is_file \in BOOLEAN :
        LET r == create(root, path, is_file)
        IN  /\ NodeCount(r.node) <= bound + 1
            /\ root' = r.node
            /\ last' = Call("create",
                            [NoArgs EXCEPT !.parts = Parts(path),
                                           !.is_file = is_file],
                            r.err, <<>>)

Delete ==
    \E path \in PathStrings :
        LET r == delete(root, path)
        IN  /\ root' = r.node
            /\ last' = Call("delete", [NoArgs EXCEPT !.parts = Parts(path)],
                            r.err, <<>>)

ListDirectory ==
    \E path \in PathStrings :
        LET r == list_directory(root, path)
        IN  /\ last' = Call("list_directory",
                            [NoArgs EXCEPT !.parts = Parts(path)], r.err, r.val)
            /\ UNCHANGED root

Search ==
    \E name \in Names :
        /\ last' = Call("search", [NoArgs EXCEPT !.name = name], NoError,
                        search_root(root, name))
        /\ UNCHANGED root

SetPermissions ==
    \E path \in PathStrings, user \in Users, perm \in Perms :
        LET r == set_permissions(root, path, user, perm)
        IN  /\ PermCount(r.node) <= MaxPerms
            /\ root' = r.node
            /\ last' = Call("set_permissions",
                            [NoArgs EXCEPT !.parts = Parts(path), !.user = user,
                                           !.perm = perm],
                            r.err, <<>>)

GetPermissions ==
    \E path \in PathStrings, user \in Users :
        LET r == get_permissions(root, path, user)
        IN  /\ last' = Call("get_permissions",
                            [NoArgs EXCEPT !.parts = Parts(path), !.user = user],
                            r.err, r.val)
            /\ UNCHANGED root

\* Every operation, on trees of at most MaxPermNodes nodes below the root
Next ==
    \/ Create(MaxPermNodes)
    \/ Delete
    \/ ListDirectory
    \/ Search
    \/ SetPermissions
    \/ GetPermissions

Spec == Init /\ [][Next]_vars

\* The operations on the tree's structure, on trees of at most MaxNodes
\* nodes below the root and without permissions
NextTree ==
    \/ Create(MaxNodes)
    \/ Delete
    \/ ListDirectory
    \/ Search

SpecTree == Init /\ [][NextTree]_vars

\* The operations that change the tree, permissions included, on trees of at
\* most MaxFrameNodes nodes below the root that hold at most MaxFramePerms
\* permission entries
NextFrame ==
    \/ Create(MaxFrameNodes)
    \/ Delete
    \/ (PermCount(root) < MaxFramePerms /\ SetPermissions)

SpecFrame == Init /\ [][NextFrame]_vars

----------------------------------------------------------------------------
(* Helpers of the properties *)

Resolves(fs, path) == _traverse(fs, Parts(path)) # None

RECURSIVE JoinSlash(_)
JoinSlash(segs) ==
    IF segs = <<>> THEN <<>>
    ELSE IF Len(segs) = 1 THEN Head(segs)
    ELSE Head(segs) \o <<"/">> \o JoinSlash(Tail(segs))

\* The path of p's parent: p's segments but the last one; "/" for the root
ParentPath(path) ==
    LET parts == Parts(path)
    IN  IF Len(parts) = 1 THEN <<"/">>
        ELSE JoinSlash(SubSeq(parts, 1, Len(parts) - 1))

LastSegment(path) == Parts(path)[Len(Parts(path))]

InSeq(x, seq) == \E i \in 1..Len(seq) : seq[i] = x

\* "/" followed by the "/"-joined names from the root's child to the node
AbsolutePath(segs) == <<"/">> \o JoinSlash(segs)

\* The full paths of the nodes named `name` in the subtree of `node`, whose
\* names from the root's child down are `segs`, in depth-first order
RECURSIVE AbsoluteMatches(_, _, _)
RECURSIVE AbsoluteMatchesIn(_, _, _)
AbsoluteMatchesIn(name, children, segs) ==
    IF children = <<>> THEN <<>>
    ELSE AbsoluteMatches(name, Head(children), Append(segs, Head(children).name))
         \o AbsoluteMatchesIn(name, Tail(children), segs)
AbsoluteMatches(name, node, segs) ==
    (IF node.name = name THEN <<AbsolutePath(segs)>> ELSE <<>>)
    \o AbsoluteMatchesIn(name, node.children, segs)

----------------------------------------------------------------------------
(* C1: from any reachable tree, for every path p and flag X, if            *)
(* create(p, is_file=X) returns without error then resolving p right       *)
(* afterwards yields a node, and that node's is_file equals X.             *)
C1_CreateThenResolve ==
    \A p \in PathStrings, X \in BOOLEAN :
        LET r == create(root, p, X)
        IN  r.err = NoError =>
                LET node == _traverse(r.node, Parts(p))
                IN  node # None /\ node.is_file = X

\* a file was created below a directory and resolves as a file
C1_Witness ==
    /\ last.op = "create" /\ last.err = NoError /\ last.args.is_file
    /\ Len(last.args.parts) >= 2
    /\ _traverse(root, last.args.parts) # None
    /\ _traverse(root, last.args.parts).is_file

(* C2: the root paths "" and "/" resolve to the root node in every path-   *)
(* resolving operation: list_directory("/") and list_directory("") succeed *)
(* and return the names of the root's children, and set_permissions and    *)
(* get_permissions on "/" act on the root node.                            *)
C2_RootPathsResolveToRoot ==
    /\ \A p \in {<<>>, <<"/">>} :
           list_directory(root, p) = [err |-> NoError, val |-> Keys(root.children)]
    /\ \A u \in Users, perm \in Perms :
           /\ set_permissions(root, <<"/">>, u, perm) =
                  [node |-> node_set_permissions(root, u, perm), err |-> NoError]
           /\ get_permissions(root, <<"/">>, u) =
                  [err |-> NoError, val |-> node_get_permissions(root, u)]

(* C3: every path search(name) returns for a non-root node is the node's   *)
(* full path with a leading "/": "/" followed by the "/"-joined names from *)
(* the root's child down to the matching node.                             *)
C3_SearchPathsAbsolute ==
    \A name \in Names \ {RootName} :
        search_root(root, name) = AbsoluteMatches(name, root, <<>>)

(* C4: create(p, is_file=X) fails with TypeConflict whenever p already     *)
(* resolves to a node whose is_file differs from X; create(p, is_file=true)*)
(* on a path that already is a file succeeds; in both cases the existing   *)
(* node keeps its type.                                                    *)
C4_CreateTypeConflict ==
    \A p \in PathStrings, X \in BOOLEAN :
        LET node == _traverse(root, Parts(p))
            r == create(root, p, X)
        IN  node # None =>
                /\ node.is_file # X => r.err = TypeConflict
                /\ (node.is_file /\ X) => r.err = NoError
                /\ _traverse(r.node, Parts(p)) # None
                /\ _traverse(r.node, Parts(p)).is_file = node.is_file

\* a directory was requested where a file exists
C4_Witness ==
    /\ last.op = "create" /\ last.err = TypeConflict /\ ~last.args.is_file
    /\ _traverse(root, last.args.parts) # None
    /\ _traverse(root, last.args.parts).is_file

(* C5: for every path p that resolves (top-level paths included), after    *)
(* delete(p) succeeds, list_directory on p's parent path succeeds and does *)
(* not contain p's last segment, and a repeated delete(p) fails with       *)
(* NotFound and leaves the tree unchanged.                                 *)
C5_DeleteThenListParent ==
    \A p \in PathStrings :
        LET d == delete(root, p)
        IN  (Resolves(root, p) /\ d.err = NoError) =>
                LET listed == list_directory(d.node, ParentPath(p))
                IN  /\ listed.err = NoError
                    /\ ~InSeq(LastSegment(p), listed.val)
                    /\ delete(d.node, p) = [node |-> d.node, err |-> NotFound]

\* seq without its entries equal to x, the others in their order
Without(seq, x) == SelectSeq(seq, LAMBDA y : y # x)

NoDuplicates(seq) ==
    \A i, j \in 1..Len(seq) : seq[i] = seq[j] => i = j

IsProperPrefix(short, long) ==
    Len(short) < Len(long) /\ SubSeq(long, 1, Len(short)) = short

\* What list_directory returns for a path of these parts, and the empty
\* list where it raises
Listing(fs, parts) ==
    LET r == ListParts(fs, parts) IN IF r.err = NoError THEN r.val ELSE <<>>

RECURSIVE CountNamed(_, _)
RECURSIVE CountNamedIn(_, _)
CountNamedIn(children, name) ==
    IF children = <<>> THEN 0
    ELSE CountNamed(Head(children), name) + CountNamedIn(Tail(children), name)
CountNamed(node, name) ==
    (IF node.name = name THEN 1 ELSE 0) + CountNamedIn(node.children, name)

RECURSIVE FilesAreLeaves(_)
FilesAreLeaves(node) ==
    /\ node.is_file => node.children = <<>>
    /\ \A i \in 1..Len(node.children) : FilesAreLeaves(node.children[i])

(* C6: list_directory(p) on a directory returns its children's names, each *)
(* once, in insertion order: a successful create appends the one new name  *)
(* to the listing of the directory it inserts into and changes no other    *)
(* listing (a new directory lists as empty); a successful delete removes   *)
(* the name from its parent's listing and keeps the order of the others,   *)
(* so a name deleted and created again moves to the end.  The directories  *)
(* listed range over the segment lists of all path strings.                *)
C6_ListInsertionOrder ==
    /\ \A d \in PathStrings :
           LET listed == list_directory(root, d)
           IN  listed.err = NoError => NoDuplicates(listed.val)
    /\ \A p \in PathStrings, X \in BOOLEAN :
           LET r == create(root, p, X)
               parts == Parts(p)
           IN  r.err = NoError =>
                   \A dparts \in PartsSet :
                       LET after == ListParts(r.node, dparts)
                           before == Listing(root, dparts)
                           key == parts[Len(dparts) + 1]
                       IN  after.err = NoError =>
                               after.val =
                                   IF /\ IsProperPrefix(dparts, parts)
                                      /\ ~InSeq(key, before)
                                   THEN Append(before, key)
                                   ELSE before
    /\ \A p \in PathStrings :
           LET r == delete(root, p)
               parts == Parts(p)
           IN  r.err = NoError =>
                   \A dparts \in PartsSet :
                       LET after == ListParts(r.node, dparts)
                           before == ListParts(root, dparts)
                       IN  after.err = NoError =>
                               /\ before.err = NoError
                               /\ after.val =
                                      IF dparts = SubSeq(parts, 1, Len(parts) - 1)
                                      THEN Without(before.val, parts[Len(parts)])
                                      ELSE before.val

\* a listing of two names in an order that is not the sorted one
C6_Witness ==
    /\ last.op = "list_directory" /\ last.err = NoError
    /\ last.val = << <<"b">>, <<"a">> >>

(* C7: search(name) returns exactly one entry per node of the tree whose   *)
(* name equals name (directories and files at every depth, and the root),  *)
(* so the empty list when no node has that name.                           *)
C7_SearchCountsMatches ==
    \A name \in Names : Len(search_root(root, name)) = CountNamed(root, name)

\* a search that found two nodes of the same name at different depths
C7_Witness ==
    /\ last.op = "search" /\ Len(last.val) = 2
    /\ Len(last.val[1]) < Len(last.val[2])

(* C8: create is idempotent: if create(p, is_file=X) has succeeded, an     *)
(* immediately repeated create(p, is_file=X) succeeds and leaves the whole *)
(* tree as the first call left it.                                         *)
C8_CreateIdempotent ==
    \A p \in PathStrings, X \in BOOLEAN :
        LET first == create(root, p, X)
        IN  first.err = NoError =>
                create(first.node, p, X) = [node |-> first.node, err |-> NoError]

\* a successful create of a directory below another directory
C8_Witness ==
    /\ last.op = "create" /\ last.err = NoError /\ ~last.args.is_file
    /\ Len(last.args.parts) >= 2
    /\ _traverse(root, last.args.parts) # None

(* C9: after set_permissions(p, u, perm) on a resolving path,              *)
(* get_permissions(p, u) returns perm, and for every other user v          *)
(* get_permissions(p, v) returns what it returned before the write; on a   *)
(* node that create has just made it returns none for every user.          *)
C9_SetThenGetPermissions ==
    /\ \A p \in PathStrings, u \in Users, perm \in Perms :
           LET s == set_permissions(root, p, u, perm)
           IN  s.err = NoError =>
                   /\ get_permissions(s.node, p, u) = [err |-> NoError, val |-> perm]
                   /\ \A v \in Users \ {u} :
                          get_permissions(s.node, p, v) = get_permissions(root, p, v)
    /\ \A p \in PathStrings, X \in BOOLEAN, v \in Users :
           LET r == create(root, p, X)
           IN  (r.err = NoError /\ ~Resolves(root, p)) =>
                   get_permissions(r.node, p, v) = [err |-> NoError, val |-> NonePerm]

\* a write for one user on a node that holds another value for the other
C9_Witness ==
    /\ last.op = "set_permissions" /\ last.err = NoError
    /\ LET node == _traverse(root, last.args.parts)
       IN  /\ node # None
           /\ DOMAIN node.permissions = Users
           /\ \E v \in Users : node.permissions[v] # last.args.perm

(* C10: create(p, is_file=X) fails with InvalidOperation whenever a proper *)
(* prefix of p's segments resolves to a file, for either X, and leaves the *)
(* tree as it was; no node is ever created below a file.                   *)
C10_CreateInsideFile ==
    /\ FilesAreLeaves(root)
    /\ \A p \in PathStrings, X \in BOOLEAN :
           LET r == create(root, p, X)
               parts == Parts(p)
           IN  /\ FilesAreLeaves(r.node)
               /\ (\E k \in 1..(Len(parts) - 1) :
                       LET node == _traverse(root, SubSeq(parts, 1, k))
                       IN  node # None /\ node.is_file)
                  => r = [node |-> root, err |-> InvalidOperation]

\* a create that was refused below a file
C10_Witness ==
    /\ last.op = "create" /\ last.err = InvalidOperation
    /\ \E k \in 1..(Len(last.args.parts) - 1) :
           LET node == _traverse(root, SubSeq(last.args.parts, 1, k))
           IN  node # None /\ node.is_file

\* Every segment names a child of the node before it, and no node before
\* the last one is a file
RECURSIVE PathExists(_, _)
PathExists(node, parts) ==
    \/ parts = <<>>
    \/ /\ ~node.is_file
       /\ \E i \in 1..Len(node.children) :
              /\ node.children[i].name = Head(parts)
              /\ PathExists(node.children[i], Tail(parts))

(* C11: set_permissions(p, u, perm) and get_permissions(p, u) fail with    *)
(* NotFound whenever p does not resolve (a segment is missing, or the path *)
(* continues below a file), and the failing call leaves the whole tree,    *)
(* permissions included, unchanged.                                        *)
C11_PermissionsNotFound ==
    \A p \in PathStrings, u \in Users :
        ~PathExists(root, Parts(p)) =>
            /\ get_permissions(root, p, u).err = NotFound
            /\ \A perm \in Perms :
                   set_permissions(root, p, u, perm) =
                       [node |-> root, err |-> NotFound]

\* a write refused for a path that continues below a file
C11_Witness ==
    /\ last.op = "set_permissions" /\ last.err = NotFound
    /\ Len(last.args.parts) >= 2
    /\ LET node == _traverse(root, SubSeq(last.args.parts, 1, 1))
       IN  node # None /\ node.is_file

\* Some create call from this tree fails with TypeConflict
SomeCreateConflicts(fs) ==
    \E p \in PathStrings, X \in BOOLEAN : create(fs, p, X).err = TypeConflict

\* Some create call from this tree fails with TypeConflict and leaves a tree
\* with more nodes than before
SomeCreateFailsPartially(fs) ==
    \E p \in PathStrings, X \in BOOLEAN :
        LET r == create(fs, p, X)
        IN  r.err = TypeConflict /\ NodeCount(r.node) > NodeCount(fs)

(* C12, as claimed: a create call can fail on its terminal segment after   *)
(* having inserted intermediate directory nodes: where a create call can   *)
(* fail with TypeConflict, there is such a failing call that leaves the    *)
(* tree with a node it did not have before.                                *)
C12_FailedCreateLeavesNodes ==
    SomeCreateConflicts(root) => SomeCreateFailsPartially(root)

(* C12, as amended: a create call that fails (InvalidOperation or          *)
(* TypeConflict) leaves the tree exactly as it was before the call: from   *)
(* no reachable tree does a failing create insert a node.                  *)
C12_FailedCreateChangesNothing ==
    \A p \in PathStrings, X \in BOOLEAN :
        LET r == create(root, p, X)
        IN  r.err # NoError => r.node = root

\* a create that failed on its terminal segment, below existing directories
C12_Witness ==
    /\ last.op = "create" /\ last.err = TypeConflict
    /\ Len(last.args.parts) >= 2
    /\ _traverse(root, last.args.parts) # None

RECURSIVE NamesNonEmptyBelow(_)
NamesNonEmptyBelow(node) ==
    \A i \in 1..Len(node.children) :
        /\ node.children[i].name # <<>>
        /\ NamesNonEmptyBelow(node.children[i])

(* C13: after any sequence of create and delete calls with arbitrary path  *)
(* strings ("", "/" and doubled slashes included) no node of the tree has  *)
(* the empty string as its name; create("") and create("/") add no child   *)
(* to the root.                                                            *)
C13_NoEmptyNames ==
    /\ NamesNonEmptyBelow(root)
    /\ \A p \in {<<>>, <<"/">>}, X \in BOOLEAN :
           Len(create(root, p, X).node.children) = Len(root.children)

\* The positions of nodes: the segment lists of the path strings and their
\* prefixes; the empty list is the root's position
NodePaths ==
    UNION {{SubSeq(q, 1, k) : k \in 0..Len(q)} : q \in PartsSet}

IsPrefix(short, long) ==
    Len(short) <= Len(long) /\ SubSeq(long, 1, Len(short)) = short

\* A node's own type, permissions and child names in order
Shallow(node) ==
    [is_file |-> node.is_file, permissions |-> node.permissions,
     names |-> Keys(node.children)]

(* C14 as claimed: after a successful delete(p) no path equal to p or      *)
(* extending p resolves, and every path that resolved before and does not  *)
(* have p as a prefix still resolves to a node of the same type, the same  *)
(* children in the same order and the same permissions.                    *)
C14_DeleteFrameAllPaths ==
    \A p \in PathStrings :
        LET d == delete(root, p)
        IN  d.err = NoError =>
                /\ \A q \in PartsSet :
                       IsPrefix(Parts(p), q) => _traverse(d.node, q) = None
                /\ \A q \in PartsSet :
                       (_traverse(root, q) # None /\ ~IsPrefix(Parts(p), q)) =>
                           /\ _traverse(d.node, q) # None
                           /\ Shallow(_traverse(d.node, q))
                                  = Shallow(_traverse(root, q))

(* C14 amended: as claimed, except that p's parent directory loses the     *)
(* entry of p's last segment from its children, the others keeping their   *)
(* order; the root is among the nodes that are kept.                       *)
C14_DeleteFrameButParent ==
    \A p \in PathStrings :
        LET d == delete(root, p)
            parts == Parts(p)
            front == SubSeq(parts, 1, Len(parts) - 1)
        IN  d.err = NoError =>
                /\ \A q \in NodePaths :
                       IsPrefix(parts, q) => _traverse(d.node, q) = None
                /\ \A q \in NodePaths :
                       (_traverse(root, q) # None /\ ~IsPrefix(parts, q)) =>
                           LET old == _traverse(root, q)
                               new == _traverse(d.node, q)
                           IN  /\ new # None
                               /\ new.name = old.name
                               /\ Shallow(new) =
                                      IF q = front
                                      THEN [Shallow(old) EXCEPT !.names =
                                               Without(@, parts[Len(parts)])]
                                      ELSE Shallow(old)

\* a delete below a directory other than the root has succeeded, in a tree
\* that holds a permission entry
C14_Witness ==
    /\ last.op = "delete" /\ last.err = NoError
    /\ Len(last.args.parts) = 2
    /\ _traverse(root, SubSeq(last.args.parts, 1, 1)) # None
    /\ PermCount(root) > 0

(* C15: a successful create(p, is_file=X) adds nodes only at prefixes of p *)
(* that did not resolve before; a node added at a proper prefix of p is a  *)
(* directory and the node added at p has the flag X; every node that       *)
(* existed before keeps its name, its is_file flag, its permissions and    *)
(* its previous children in their previous order (a new child comes after  *)
(* them).                                                                  *)
C15_CreateFrame ==
    \A p \in PathStrings, X \in BOOLEAN :
        LET r == create(root, p, X)
            parts == Parts(p)
        IN  r.err = NoError =>
                \A q \in NodePaths :
                    LET old == _traverse(root, q)
                        new == _traverse(r.node, q)
                    IN  IF old # None
                        THEN /\ new # None
                             /\ new.name = old.name
                             /\ new.is_file = old.is_file
                             /\ new.permissions = old.permissions
                             /\ IsPrefix(Keys(old.children), Keys(new.children))
                             /\ \A i \in 1..Len(old.children) :
                                    old.children[i].is_file
                                        = new.children[i].is_file
                        ELSE new # None =>
                                 /\ IsPrefix(q, parts)
                                 /\ new.is_file = (q = parts /\ X)
                                 /\ new.permissions = EmptyPerms

\* a create has added a file below a directory that already held a
\* permission entry
C15_Witness ==
    /\ last.op = "create" /\ last.err = NoError /\ last.args.is_file
    /\ Len(last.args.parts) = 2
    /\ _traverse(root, last.args.parts) # None
    /\ _traverse(root, SubSeq(last.args.parts, 1, 1)).permissions # EmptyPerms

(* C16: in every state reached by create, delete and set_permissions      *)
(* calls, every node with is_file = true has an empty children mapping.    *)
C16_FilesHaveNoChildren == FilesAreLeaves(root)

\* set_permissions has acted on a file
C16_Witness ==
    /\ last.op = "set_permissions" /\ last.err = NoError
    /\ _traverse(root, last.args.parts) # None
    /\ _traverse(root, last.args.parts).is_file

\* The tree with every node's permission map emptied: its structure alone
RECURSIVE Erase(_)
Erase(node) ==
    [node EXCEPT !.permissions = EmptyPerms,
                 !.children = [i \in 1..Len(@) |-> Erase(@[i])]]

\* The trees of root's structure to compare with: without any permission,
\* and with one more permission entry on any node
SameStructure ==
    {Erase(root)} \cup
        {set_permissions(root, p, u, perm).node :
            p \in PathStrings, u \in Users, perm \in Perms}

(* C17: permissions influence no other operation: on two trees of the same *)
(* structure that differ only in permission maps, every create, delete,    *)
(* list_directory and search call gives the same result or error and the   *)
(* same structural change; set_permissions changes no node's existence,    *)
(* type or child order.                                                    *)
C17_PermissionsInert ==
    \A other \in SameStructure :
        /\ Erase(other) = Erase(root)
        /\ \A p \in PathStrings :
               /\ \A X \in BOOLEAN :
                      LET r1 == create(root, p, X)
                          r2 == create(other, p, X)
                      IN  r1.err = r2.err /\ Erase(r1.node) = Erase(r2.node)
               /\ LET d1 == delete(root, p)
                      d2 == delete(other, p)
                  IN  d1.err = d2.err /\ Erase(d1.node) = Erase(d2.node)
               /\ list_directory(root, p) = list_directory(other, p)
        /\ \A name \in Names : search_root(root, name) = search_root(other, name)

\* a top-level delete has succeeded next to a node that holds a permission
\* entry
C17_Witness ==
    /\ last.op = "delete" /\ last.err = NoError
    /\ Len(last.args.parts) = 1
    /\ \E i \in 1..Len(root.children) : root.children[i].permissions # EmptyPerms

(* C18: search results are usable as paths: for every name, each path     *)
(* that search(name) returns resolves, through get_permissions and through *)
(* _traverse on its stripped and split segments, to a node whose name is   *)
(* that name, and distinct matching nodes are reported with distinct       *)
(* paths (as many distinct paths as nodes that match).                     *)
C18_SearchResultsResolve ==
    \A name \in Names :
        LET found == search_root(root, name)
        IN  /\ \A i \in 1..Len(found) :
                   /\ _traverse(root, Parts(found[i])) # None
                   /\ _traverse(root, Parts(found[i])).name = name
                   /\ \A u \in Users :
                          get_permissions(root, found[i], u).err = NoError
            /\ NoDuplicates(found)
            /\ Len(found) = CountNamed(root, name)

IsRoot(node) == node # None /\ node.name = RootName /\ ~node.is_file

(* C19: in every reachable state the root node exists, is a directory and  *)
(* is named "/", and no call of create, delete or set_permissions, with    *)
(* "", "/" or any other path, removes, replaces or retypes it.             *)
C19_RootStays ==
    /\ IsRoot(root)
    /\ \A p \in PathStrings :
           /\ \A X \in BOOLEAN : IsRoot(create(root, p, X).node)
           /\ IsRoot(delete(root, p).node)
           /\ \A u \in Users, perm \in Perms :
                  IsRoot(set_permissions(root, p, u, perm).node)

\* create("/", is_file=true) has acted
C19_Witness ==
    /\ last.op = "create" /\ last.err = NoError
    /\ last.args.parts = << <<>> >> /\ last.args.is_file

====
